---- MODULE Spec2Model ----
(***************************************************************************)
(* The multi-window session manager of src/src/app/page.tsx (component     *)
(* Home) together with the windows it mounts: TerminalWindow               *)
(* (src/src/components/terminal-window.tsx), GroupChatWindow               *)
(* (src/src/lib/terminal-themes.ts, second half) and ConfirmationDialog    *)
(* (src/unnamed/part_001).                                                 *)
(*                                                                         *)
(* React semantics used by the model:                                      *)
(*  - an event handler or timer callback runs to completion, its state     *)
(*    updates are batched and committed in one render; one action of the   *)
(*    model is one handler plus the commit it causes (mounting and         *)
(*    unmounting of windows, effect cleanups and the saveState calls       *)
(*    those cleanups make);                                                *)
(*  - a handler sees the state of the render that created it; a timer      *)
(*    callback keeps the closure of the render in which the timer was      *)
(*    set, so values it reads directly (not through a functional updater)  *)
(*    can be stale;                                                        *)
(*  - a state setter called on an unmounted component does nothing;        *)
(*  - on unmount a passive-effect cleanup runs after the DOM refs were     *)
(*    detached, so messagesContainerRef.current is null there.             *)
(* A control can be used whenever it is rendered, enabled and not           *)
(* display:none: an element lying over it stops the mouse, not the         *)
(* keyboard.                                                               *)
(* Arrays are compared by value; every array the program builds differs    *)
(* in content from the arrays it can meet at a === comparison (message     *)
(* ids are unique), so value equality stands for reference equality.       *)
(***************************************************************************)
EXTENDS Integers, Sequences, FiniteSets, TLC

VARIABLES
    terminals,          \* Home: terminals state, one TerminalState per type
    confirmationDialog, \* Home: confirmationDialog state
    activeFullscreen,   \* Home: activeFullscreen state (None = null)
    nextZIndex,         \* Home: nextZIndex state
    toolbarVisible,     \* Home: whether the last render showed the toolbar
    win,                \* per type: local state of the mounted window component
    fsTimers,           \* pending 300 ms timers of toggleFullscreen (collapsed case)
    dlg,                \* local state of the mounted ConfirmationDialog
    now,                \* the clock read by Date.now()
    sendSeq,            \* number of messages sent so far (source of message ids)
    focusBudget,        \* bringToFront calls the exploration allows
    sendBudget,         \* accepted sends the exploration allows
    request,            \* chat endpoint: the request POST was called with
    response,           \* chat endpoint: what POST returned (or raised)
    upstreamCalls,      \* chat endpoint: providers whose API was called
    chunks,             \* chunks the upstream Anthropic stream has yet to yield
    events,             \* what the adapter enqueued on the response stream
    streamState,        \* state of the response stream of the adapter
    view                \* one window's messages container as its scroll effect sees it

apiVars == <<request, response, upstreamCalls, chunks, events, streamState>>

vars == <<terminals, confirmationDialog, activeFullscreen, nextZIndex,
          toolbarVisible, win, fsTimers, dlg, now, sendSeq, focusBudget,
          sendBudget, apiVars, view>>

-----------------------------------------------------------------------------
(* Bounds of the model *)

MaxFocus == 4       \* bringToFront calls explored by Spec
MaxChatFocus == 2   \* bringToFront calls explored by SpecChat
MaxSends == 1       \* messages sent explored by SpecChat
MaxTalkSends == 2   \* messages sent explored by SpecTalk
MaxGroupFocus == 3  \* bringToFront calls explored by SpecGroup
MaxGroupSends == 2  \* messages sent explored by SpecGroup
MaxScroll == 1      \* largest scroll offset explored
MaxNow == 2         \* largest clock value explored
MaxChunks == 3      \* chunks of an upstream stream explored by SpecApi
MaxViewMessages == 3 \* messages of the window explored by SpecScroll
MaxDialogClicks == 2 \* clicks on the buttons of one dialog box explored by SpecDialog
MaxLockFocus == 4    \* z-indexes handed out in SpecLock

(* Program constants *)

InitialZIndex == 10
InitialNextZIndex == 20
InitialV2ZIndex == 15
NearBottom == 50
SeedId == 1

None == "none"
WindowIds == {"default", "npc", "void", "group"}
PersonaIds == {"default", "npc", "void"}
ChatIds == {"default", "npc"}    \* the windows SpecChat opens
CloseIds == {"default"}          \* the chips whose X Spec clicks
TalkIds == {"default"}           \* the window SpecTalk opens
terminalTypes == <<"default", "npc", "void", "group">>
Directions == {"next", "prev"}
Texts == {"", " ", " hi "}

-----------------------------------------------------------------------------
(* Messages *)

getInitialMessage(type) ==
    CASE type = "default" -> "Welcome to the terminal. How can I assist you today?"
      [] type = "npc" -> "Greetings, traveler. How may I assist you on your quest today?"
      [] type = "void" -> "You have connected to the void. What secrets do you seek in the darkness?"
      [] type = "group" -> "Welcome to the group chat."
      [] OTHER -> "Hello, how can I help you?"

SystemMessage(content) == [id |-> SeedId, content |-> content, sender |-> "system"]

GroupWelcome == "Welcome to the group chat. Multiple AI assistants are available to help you."

InitialTerminal(w) ==
    [isOpen |-> FALSE,
     isToolbarMinimized |-> FALSE,
     messages |-> IF w = "group" THEN <<>>
                  ELSE <<SystemMessage(getInitialMessage(w))>>,
     scrollPosition |-> 0,
     createdAt |-> 0,
     zIndex |-> InitialZIndex]

EmptyDialog == [isOpen |-> FALSE, terminalType |-> None, title |-> "", message |-> ""]

trim(text) ==
    CASE text = "" -> ""
      [] text = " " -> ""
      [] text = " hi " -> "hi"
      [] OTHER -> text

-----------------------------------------------------------------------------
(* Home: pure parts of the handlers *)

\* saveState without the "skip update if nothing changed" test
saveStateAlways(T, w, messages, scrollPosition) ==
    [state |-> [T EXCEPT ![w].messages = messages,
                         ![w].scrollPosition = scrollPosition],
     changed |-> TRUE]

\* saveDefaultState .. saveGroupState: the updater given to setTerminals;
\* changed is FALSE when the updater returns prev itself
saveState(T, w, messages, scrollPosition) ==
    IF T[w].messages = messages /\ T[w].scrollPosition = scrollPosition
    THEN [state |-> T, changed |-> FALSE]
    ELSE [state |-> [T EXCEPT ![w].messages = messages,
                              ![w].scrollPosition = scrollPosition],
          changed |-> TRUE]

bringToFront(T, w, z) == [T EXCEPT ![w].zIndex = z]

\* a minimize that leaves the window open
minimizeToToolbarKeepsOpen(T, w) ==
    [T EXCEPT ![w].isToolbarMinimized = TRUE]

minimizeToToolbar(T, w) ==
    [T EXCEPT ![w].isToolbarMinimized = TRUE, ![w].isOpen = FALSE]

\* isTaskbarVisible without the test of activeFullscreen
isTaskbarVisibleAnyMinimized(T, active) ==
    \/ T["default"].isToolbarMinimized
    \/ T["npc"].isToolbarMinimized
    \/ T["void"].isToolbarMinimized
    \/ T["group"].isToolbarMinimized

isTaskbarVisible(T, active) ==
    /\ active = None
    /\ \/ T["default"].isToolbarMinimized
       \/ T["npc"].isToolbarMinimized
       \/ T["void"].isToolbarMinimized
       \/ T["group"].isToolbarMinimized

isActive(w) == activeFullscreen = w \/ activeFullscreen = None

-----------------------------------------------------------------------------
(* Window components: local state *)

Unmounted ==
    [mounted |-> FALSE, isFullscreen |-> FALSE, isMinimized |-> FALSE,
     isTransitioning |-> FALSE,
     messages |-> <<>>, savedScrollPos |-> 0, scrollTop |-> 0,
     inputValue |-> "",
     saveTimer |-> FALSE, replies |-> <<>>, voidReplies |-> <<>>,
     mountMessages |-> <<>>, mountScrollPos |-> 0]

\* useState initialisers of the window and its first effects
Mount(w, rec) ==
    LET msgs == IF Len(rec.messages) > 0 THEN rec.messages
                ELSE IF w = "group" THEN <<SystemMessage(GroupWelcome)>>
                ELSE <<SystemMessage(getInitialMessage(w))>>
    IN [mounted |-> TRUE, isFullscreen |-> FALSE, isMinimized |-> FALSE,
        isTransitioning |-> FALSE,
        messages |-> msgs,
        savedScrollPos |-> rec.scrollPosition,
        scrollTop |-> rec.scrollPosition,
        inputValue |-> "",
        saveTimer |-> TRUE, replies |-> <<>>, voidReplies |-> <<>>,
        mountMessages |-> IF w = "group" THEN msgs ELSE <<>>,
        mountScrollPos |-> IF w = "group" THEN rec.scrollPosition ELSE 0]

\* the messages container is rendered, so messagesContainerRef.current is set
containerRendered(c) == ~c.isMinimized \/ c.isFullscreen

\* what "messagesContainerRef.current ? scrollTop : savedScrollPos" evaluates to
currentScroll(c) == IF containerRendered(c) THEN c.scrollTop ELSE c.savedScrollPos

\* the className "hidden" of the window: display none, nothing in it can be used
hidden(w) == win[w].isFullscreen /\ ~isActive(w)

usable(w) == win[w].mounted /\ ~hidden(w)

-----------------------------------------------------------------------------
(* Commit of a render of Home *)

\* cleanup of the save effect when the window unmounts (refs already detached)
unmountSave(T, w, c) ==
    IF w = "group"
    THEN saveState(T, w, c.mountMessages, c.mountScrollPos).state
    ELSE saveState(T, w, c.messages, c.savedScrollPos).state

\* cleanup of the save effect of a TerminalWindow that stays mounted: it runs
\* because onSaveState is a new function in every render of Home
rerenderSave(T, w, c) ==
    IF w = "group" THEN T
    ELSE saveState(T, w, c.messages, currentScroll(c)).state

renderTerminals(T, W) ==
    [w \in WindowIds |->
        IF W[w].mounted /\ ~T[w].isOpen THEN unmountSave(T, w, W[w])[w]
        ELSE IF W[w].mounted /\ T[w].isOpen THEN rerenderSave(T, w, W[w])[w]
        ELSE T[w]]

renderWindows(T, W) ==
    [w \in WindowIds |->
        IF T[w].isOpen
        THEN IF W[w].mounted THEN [W[w] EXCEPT !.saveTimer = TRUE]
             ELSE Mount(w, T[w])
        ELSE Unmounted]

renderTimers(T, W, timers) ==
    {IF W[t.w].mounted /\ ~T[t.w].isOpen THEN [t EXCEPT !.live = FALSE] ELSE t :
        t \in timers}

\* the dialog component mounts and unmounts with confirmationDialog.isOpen
DialogUnmounted == [mounted |-> FALSE, isVisible |-> FALSE, exiting |-> FALSE,
                    showTimer |-> FALSE, timers |-> <<>>]
DialogMounted == [mounted |-> TRUE, isVisible |-> FALSE, exiting |-> FALSE,
                  showTimer |-> TRUE, timers |-> <<>>]

\* the dialog after a render of Home.  Its 300 ms timers are not cleared on
\* unmount
renderDialog(cd, d) ==
    IF cd.isOpen
    THEN (IF d.mounted THEN d ELSE [DialogMounted EXCEPT !.timers = d.timers])
    ELSE [DialogUnmounted EXCEPT !.timers = d.timers]

\* the dialog once the callback of its oldest 300 ms timer has run
spent(d) == [d EXCEPT !.timers = IF @ = <<>> THEN <<>> ELSE Tail(@)]

\* Home re-renders with terminals T, dialog cd and fullscreen owner a;
\* W and timers are the windows and timers as the handler left them
CommitDialog(T, W, timers, cd, a, d) ==
    /\ terminals' = renderTerminals(T, W)
    /\ win' = renderWindows(T, W)
    /\ fsTimers' = renderTimers(T, W, timers)
    /\ confirmationDialog' = cd
    /\ dlg' = renderDialog(cd, d)
    /\ activeFullscreen' = a
    /\ toolbarVisible' = isTaskbarVisible(renderTerminals(T, W), a)
    /\ UNCHANGED <<focusBudget, sendBudget, apiVars, view>>

Commit(T, W, timers, cd, a) == CommitDialog(T, W, timers, cd, a, dlg)

-----------------------------------------------------------------------------
(* Initial state: Home just rendered for the first time *)

NoResponse == [kind |-> "none", status |-> 0]

\* no messages container is observed
NoView ==
    [kind |-> "none", isMinimized |-> FALSE, isTransitioning |-> FALSE,
     senders |-> <<>>, savedLength |-> 0, scrollHeight |-> 0,
     clientHeight |-> 0, scrollTop |-> 0, scrolled |-> FALSE]

\* the chat endpoint has not been called
NoRequest ==
    /\ request = [ok |-> TRUE, modelProvider |-> None,
                  env |-> [openai |-> FALSE, anthropic |-> FALSE]]
    /\ response = NoResponse
    /\ upstreamCalls = {}
    /\ chunks = <<>>
    /\ events = <<>>
    /\ streamState = "none"

Init ==
    /\ terminals = [w \in WindowIds |-> InitialTerminal(w)]
    /\ confirmationDialog = EmptyDialog
    /\ activeFullscreen = None
    /\ nextZIndex = InitialNextZIndex
    /\ toolbarVisible = FALSE
    /\ win = [w \in WindowIds |-> Unmounted]
    /\ fsTimers = {}
    /\ dlg = DialogUnmounted
    /\ now = 0
    /\ sendSeq = 0
    /\ focusBudget = MaxFocus
    /\ sendBudget = 0
    /\ NoRequest
    /\ view = NoView

-----------------------------------------------------------------------------
(* Home: handlers *)

canFocus == nextZIndex < InitialNextZIndex + focusBudget

open(T) == {w \in WindowIds : T[w].isOpen}

\* Date.now(): the clock advances with every reading, up to the bound
tick == IF now < MaxNow THEN now + 1 ELSE now

\* openChat whose restore branch leaves isToolbarMinimized set
openChatKeepsMinimized(w) ==
    /\ w \in PersonaIds
    /\ canFocus
    /\ IF terminals[w].isToolbarMinimized
       THEN /\ Commit(bringToFront([terminals EXCEPT ![w].isOpen = TRUE],
                                   w, nextZIndex),
                      win, fsTimers, confirmationDialog, activeFullscreen)
            /\ UNCHANGED now
       ELSE /\ Commit(bringToFront([terminals EXCEPT ![w].isOpen = TRUE,
                                                     ![w].createdAt = tick],
                                   w, nextZIndex),
                      win, fsTimers, confirmationDialog, activeFullscreen)
            /\ now' = tick
    /\ nextZIndex' = nextZIndex + 1
    /\ UNCHANGED sendSeq

\* openDefaultChat, openNPCChat, openVoidChat: the three open buttons and the
\* toolbar chips of the persona windows
openChat(w) ==
    /\ w \in PersonaIds
    /\ canFocus
    /\ IF terminals[w].isToolbarMinimized
       THEN /\ Commit(bringToFront([terminals EXCEPT ![w].isToolbarMinimized = FALSE,
                                                     ![w].isOpen = TRUE],
                                   w, nextZIndex),
                      win, fsTimers, confirmationDialog, activeFullscreen)
            /\ UNCHANGED now
       ELSE /\ Commit(bringToFront([terminals EXCEPT ![w].isOpen = TRUE,
                                                     ![w].createdAt = tick],
                                   w, nextZIndex),
                      win, fsTimers, confirmationDialog, activeFullscreen)
            /\ now' = tick
    /\ nextZIndex' = nextZIndex + 1
    /\ UNCHANGED sendSeq

\* open(id) of the window lifecycle manager for the group window: a restore
\* when the record is minimized to the toolbar, else a fresh open stamped with
\* the time, the messages untouched; focus(id) afterwards
openGroupChat ==
    /\ canFocus
    /\ IF terminals["group"].isToolbarMinimized
       THEN /\ Commit(bringToFront([terminals EXCEPT !["group"].isToolbarMinimized = FALSE,
                                                     !["group"].isOpen = TRUE],
                                   "group", nextZIndex),
                      win, fsTimers, confirmationDialog, activeFullscreen)
            /\ UNCHANGED now
       ELSE /\ Commit(bringToFront([terminals EXCEPT !["group"].isOpen = TRUE,
                                                     !["group"].createdAt = tick],
                                   "group", nextZIndex),
                      win, fsTimers, confirmationDialog, activeFullscreen)
            /\ now' = tick
    /\ nextZIndex' = nextZIndex + 1
    /\ UNCHANGED sendSeq

\* the GROUP_CHAT chip shown whenever the toolbar is
restoreGroupChatShown ==
    /\ toolbarVisible
    /\ canFocus
    /\ Commit(bringToFront([terminals EXCEPT !["group"].isToolbarMinimized = FALSE,
                                             !["group"].isOpen = TRUE],
                           "group", nextZIndex),
              win, fsTimers, confirmationDialog, activeFullscreen)
    /\ nextZIndex' = nextZIndex + 1
    /\ UNCHANGED <<now, sendSeq>>

\* the GROUP_CHAT chip of the toolbar
restoreGroupChat ==
    /\ toolbarVisible
    /\ terminals["group"].isToolbarMinimized
    /\ canFocus
    /\ Commit(bringToFront([terminals EXCEPT !["group"].isToolbarMinimized = FALSE,
                                             !["group"].isOpen = TRUE],
                           "group", nextZIndex),
              win, fsTimers, confirmationDialog, activeFullscreen)
    /\ nextZIndex' = nextZIndex + 1
    /\ UNCHANGED <<now, sendSeq>>

\* a handler that changed only the local state of windows: Home does not render
Local(W, timers) ==
    /\ win' = W
    /\ fsTimers' = timers
    /\ UNCHANGED <<terminals, confirmationDialog, activeFullscreen,
                   toolbarVisible, dlg, focusBudget, sendBudget, apiVars, view>>

\* minimizeDefaultToToolbar .. minimizeGroupToToolbar, reached through the
\* close button of the window; TerminalWindow.handleClose saves first
handleClose(w) ==
    /\ usable(w)
    /\ LET saved == IF w = "group" THEN terminals
                    ELSE saveState(terminals, w, win[w].messages,
                                   currentScroll(win[w])).state
       IN Commit(minimizeToToolbar(saved, w), win, fsTimers, confirmationDialog,
                 IF activeFullscreen = w THEN None ELSE activeFullscreen)
    /\ UNCHANGED <<nextZIndex, now, sendSeq>>

\* closeTerminal: the X of a toolbar chip
closeTerminal(w) ==
    /\ toolbarVisible
    /\ terminals[w].isToolbarMinimized
    /\ Commit(terminals, win, fsTimers,
              [isOpen |-> TRUE, terminalType |-> w, title |-> "Close Terminal",
               message |-> "This will permanently close the terminal and destroy all context. Are you sure you want to continue?"],
              activeFullscreen)
    /\ UNCHANGED <<nextZIndex, now, sendSeq>>

resetTerminal(T, w) ==
    [T EXCEPT ![w].isOpen = FALSE,
              ![w].isToolbarMinimized = FALSE,
              ![w].messages = <<SystemMessage(getInitialMessage(w))>>,
              ![w].scrollPosition = 0]

\* handleConfirmClose without the test of terminalType
handleConfirmCloseUnguarded(terminalType) ==
    /\ CommitDialog(IF terminalType \in WindowIds
                    THEN resetTerminal(terminals, terminalType) ELSE terminals,
                    win, fsTimers, EmptyDialog, activeFullscreen, spent(dlg))
    /\ UNCHANGED <<nextZIndex, now, sendSeq>>

\* handleConfirmClose as the dialog calls it: terminalType is the one of the
\* render in which the button was clicked
handleConfirmClose(terminalType) ==
    IF terminalType = None THEN UNCHANGED vars
    ELSE /\ CommitDialog(resetTerminal(terminals, terminalType), win,
                         fsTimers, EmptyDialog, activeFullscreen, spent(dlg))
         /\ UNCHANGED <<nextZIndex, now, sendSeq>>

\* a cancel that leaves the request as it is
handleCancelCloseKeepsRequest ==
    /\ CommitDialog(terminals, win, fsTimers, confirmationDialog,
                    activeFullscreen, spent(dlg))
    /\ UNCHANGED <<nextZIndex, now, sendSeq>>

handleCancelClose ==
    /\ CommitDialog(terminals, win, fsTimers, EmptyDialog, activeFullscreen,
                    spent(dlg))
    /\ UNCHANGED <<nextZIndex, now, sendSeq>>

\* a setFullscreen whose exit clears the owner whoever it is
setFullscreenExitAlways(w, isFullscreen, z, W, timers) ==
    IF isFullscreen
    THEN /\ Commit(bringToFront(terminals, w, z), W, timers,
                   confirmationDialog, w)
         /\ nextZIndex' = nextZIndex + 1
    ELSE /\ Commit(terminals, W, timers, confirmationDialog, None)
         /\ UNCHANGED nextZIndex

\* setDefaultFullscreen .. setGroupFullscreen; z is nextZIndex as the calling
\* closure holds it, W and timers the windows and timers the caller leaves
setFullscreen(w, isFullscreen, z, W, timers) ==
    IF isFullscreen
    THEN /\ Commit(bringToFront(terminals, w, z), W, timers,
                   confirmationDialog, w)
         /\ nextZIndex' = nextZIndex + 1
    ELSE IF activeFullscreen = w
    THEN /\ Commit(terminals, W, timers, confirmationDialog, None)
         /\ UNCHANGED nextZIndex
    ELSE /\ Local(W, timers)
         /\ UNCHANGED nextZIndex

indexOf(w) == CHOOSE i \in 0..3 : terminalTypes[i + 1] = w

step(i, direction) ==
    IF direction = "next" THEN (i + 1) % Len(terminalTypes)
    ELSE (i - 1 + Len(terminalTypes)) % Len(terminalTypes)

\* cycleTarget without the isOpen tests
cycleTargetAnyWindow(T, active, direction) ==
    terminalTypes[step(indexOf(active), direction) + 1]

\* the window cycleFullscreen switches to, or active when it switches to none
cycleTarget(T, active, direction) ==
    LET first == step(indexOf(active), direction)
        second == step(first, direction)
    IN IF T[terminalTypes[first + 1]].isOpen THEN terminalTypes[first + 1]
       ELSE IF T[terminalTypes[second + 1]].isOpen THEN terminalTypes[second + 1]
       ELSE active

\* cycleFullscreen: the arrows shown while a window holds fullscreen
cycleFullscreen(direction) ==
    /\ activeFullscreen # None
    /\ LET target == cycleTarget(terminals, activeFullscreen, direction)
       IN IF target = activeFullscreen THEN UNCHANGED vars
          ELSE /\ canFocus
               /\ Commit(bringToFront(terminals, target, nextZIndex), win,
                         fsTimers, confirmationDialog, target)
               /\ nextZIndex' = nextZIndex + 1
               /\ UNCHANGED <<now, sendSeq>>

\* cycleFullscreen of the Home with a fifth window "v2" (terminal-types.ts):
\* the keys it may switch to, in the order of Object.keys(terminals)
availableFullscreenKeys(T, isTermWinV2Open) ==
    SelectSeq(terminalTypes, LAMBDA key : T[key].isOpen)
        \o (IF isTermWinV2Open THEN <<"v2">> ELSE <<>>)

\* cycleTargetV2 without the return for an owner that is not in the list:
\* indexOf gives -1 and the arithmetic goes on
cycleTargetV2AbsentOwner(T, isTermWinV2Open, active, direction) ==
    LET keys == availableFullscreenKeys(T, isTermWinV2Open)
        found == {i \in 1..Len(keys) : keys[i] = active}
    IN IF active = None \/ Len(keys) < 2 THEN active
       ELSE LET currentIndex == IF found = {} THEN -1
                                ELSE (CHOOSE i \in found : \A j \in found : i <= j) - 1
                nextIndex == IF direction = "next"
                             THEN (currentIndex + 1) % Len(keys)
                             ELSE (currentIndex - 1 + Len(keys)) % Len(keys)
            IN keys[nextIndex + 1]

\* the key that cycleFullscreen makes active, or active on its early returns
cycleTargetV2(T, isTermWinV2Open, active, direction) ==
    LET keys == availableFullscreenKeys(T, isTermWinV2Open)
        found == {i \in 1..Len(keys) : keys[i] = active}
    IN IF active = None \/ Len(keys) < 2 THEN active
       ELSE IF found = {} THEN active
       ELSE LET currentIndex == (CHOOSE i \in found : \A j \in found : i <= j) - 1
                nextIndex == IF direction = "next"
                             THEN (currentIndex + 1) % Len(keys)
                             ELSE (currentIndex - 1 + Len(keys)) % Len(keys)
            IN keys[nextIndex + 1]

\* the state cycleFullscreen of terminal-types.ts leaves: bringV2ToFront for
\* "v2", bringToFront for the others, both with nextZIndex of the render
cycleFullscreenV2(T, isTermWinV2Open, termWinV2ZIndex, active, z, direction) ==
    LET nextKey == cycleTargetV2(T, isTermWinV2Open, active, direction)
    IN IF nextKey = active
       THEN [activeFullscreen |-> active, terminals |-> T,
             termWinV2ZIndex |-> termWinV2ZIndex, nextZIndex |-> z]
       ELSE IF nextKey = "v2"
       THEN [activeFullscreen |-> nextKey, terminals |-> T,
             termWinV2ZIndex |-> z, nextZIndex |-> z + 1]
       ELSE [activeFullscreen |-> nextKey, terminals |-> bringToFront(T, nextKey, z),
             termWinV2ZIndex |-> termWinV2ZIndex, nextZIndex |-> z + 1]

\* onFocus: mouse down on a window, or the start of a drag
onFocus(w) ==
    /\ usable(w)
    /\ canFocus
    /\ Commit(bringToFront(terminals, w, nextZIndex), win, fsTimers,
              confirmationDialog, activeFullscreen)
    /\ nextZIndex' = nextZIndex + 1
    /\ UNCHANGED <<now, sendSeq>>

-----------------------------------------------------------------------------
(* Window components: handlers and timers *)

\* a window changed its messages or savedScrollPos: its save effect is cleaned
\* up with the values of the previous render (before) and set up again
saveEffect(w, before, after, timers) ==
    LET r == saveState(terminals, w, before.messages,
                       IF containerRendered(after) THEN after.scrollTop
                       ELSE before.savedScrollPos)
        W == [win EXCEPT ![w] = after]
    IN IF w # "group" /\ r.changed
       THEN Commit(r.state, W, timers, confirmationDialog, activeFullscreen)
       ELSE Local(W, timers)

\* toggleFullscreen without the return while a transition runs
toggleFullscreenUnlocked(w) ==
    /\ usable(w)
    /\ LET c == win[w] IN
       IF c.isMinimized /\ ~c.isFullscreen
       THEN /\ Local([win EXCEPT ![w].isTransitioning = TRUE,
                                 ![w].isMinimized = FALSE,
                                 ![w].scrollTop = terminals[w].scrollPosition],
                     fsTimers \cup {[w |-> w, z |-> nextZIndex, live |-> TRUE]})
            /\ UNCHANGED nextZIndex
       ELSE LET after == [c EXCEPT !.isTransitioning = TRUE,
                                   !.savedScrollPos =
                                       IF ~c.isFullscreen THEN c.scrollTop
                                       ELSE c.savedScrollPos,
                                   !.isFullscreen = ~c.isFullscreen]
            IN /\ c.isFullscreen \/ canFocus
               /\ setFullscreen(w, ~c.isFullscreen, nextZIndex,
                                [win EXCEPT ![w] = after], fsTimers)
    /\ UNCHANGED <<now, sendSeq>>

\* toggleFullscreen: the fullscreen button, disabled while a transition runs
toggleFullscreen(w) ==
    /\ usable(w)
    /\ ~win[w].isTransitioning
    /\ LET c == win[w] IN
       IF c.isMinimized /\ ~c.isFullscreen
       THEN /\ Local([win EXCEPT ![w].isTransitioning = TRUE,
                                 ![w].isMinimized = FALSE,
                                 ![w].scrollTop = terminals[w].scrollPosition],
                     fsTimers \cup {[w |-> w, z |-> nextZIndex, live |-> TRUE]})
            /\ UNCHANGED nextZIndex
       ELSE LET after == [c EXCEPT !.isTransitioning = TRUE,
                                   !.savedScrollPos =
                                       IF ~c.isFullscreen THEN c.scrollTop
                                       ELSE c.savedScrollPos,
                                   !.isFullscreen = ~c.isFullscreen]
            IN /\ c.isFullscreen \/ canFocus
               /\ setFullscreen(w, ~c.isFullscreen, nextZIndex,
                                [win EXCEPT ![w] = after], fsTimers)
    /\ UNCHANGED <<now, sendSeq>>

\* the 300 ms timer of toggleFullscreen
fullscreenTimer(t) ==
    /\ t \in fsTimers
    /\ canFocus
    /\ setFullscreen(t.w, TRUE, t.z,
                     IF t.live
                     THEN [win EXCEPT ![t.w].isFullscreen = TRUE,
                                      ![t.w].scrollTop = 0]
                     ELSE win,
                     fsTimers \ {t})
    /\ UNCHANGED <<now, sendSeq>>

\* the 100 ms timer that ends a transition
transitionTimer(w) ==
    /\ win[w].mounted
    /\ win[w].isTransitioning
    /\ \A t \in fsTimers : ~(t.w = w /\ t.live)
    /\ Local([win EXCEPT ![w].isTransitioning = FALSE], fsTimers)
    /\ UNCHANGED <<nextZIndex, now, sendSeq>>

\* toggleMinimize without the disabled condition of its button and without
\* the early return
toggleMinimizeAnytime(w) ==
    /\ usable(w)
    /\ LET c == win[w] IN
       IF ~c.isMinimized
       THEN LET after == [c EXCEPT !.savedScrollPos = c.scrollTop,
                                   !.isMinimized = TRUE,
                                   !.scrollTop = 0]
            IN IF after.savedScrollPos # c.savedScrollPos
               THEN saveEffect(w, c, after, fsTimers)
               ELSE Local([win EXCEPT ![w] = after], fsTimers)
       ELSE Local([win EXCEPT ![w].isMinimized = FALSE,
                              ![w].scrollTop = c.savedScrollPos], fsTimers)
    /\ UNCHANGED <<nextZIndex, now, sendSeq>>

\* toggleMinimize: the collapse button, disabled while the window is
\* fullscreen or in a transition
toggleMinimize(w) ==
    /\ usable(w)
    /\ ~win[w].isFullscreen
    /\ ~win[w].isTransitioning
    /\ LET c == win[w] IN
       IF ~c.isMinimized
       THEN LET after == [c EXCEPT !.savedScrollPos = c.scrollTop,
                                   !.isMinimized = TRUE,
                                   !.scrollTop = 0]
            IN IF after.savedScrollPos # c.savedScrollPos
               THEN saveEffect(w, c, after, fsTimers)
               ELSE Local([win EXCEPT ![w] = after], fsTimers)
       ELSE Local([win EXCEPT ![w].isMinimized = FALSE,
                              ![w].scrollTop = c.savedScrollPos], fsTimers)
    /\ UNCHANGED <<nextZIndex, now, sendSeq>>

\* the user scrolls the messages, or a smooth scroll reaches its target
scroll(w) ==
    /\ usable(w)
    /\ containerRendered(win[w])
    /\ \E s \in 0..MaxScroll :
        /\ s # win[w].scrollTop
        /\ Local([win EXCEPT ![w].scrollTop = s], fsTimers)
    /\ UNCHANGED <<nextZIndex, now, sendSeq>>

UserMessage(k, text) == [id |-> 10 * k, content |-> text, sender |-> "user"]
ReplyMessage(k) == [id |-> 10 * k + 1, content |-> "reply", sender |-> "system"]

\* onChange of the input of a window: the user edits the text
handleInputChange(w) ==
    /\ usable(w)
    /\ containerRendered(win[w])
    /\ sendSeq < sendBudget
    /\ \E text \in Texts \ {win[w].inputValue} :
        Local([win EXCEPT ![w].inputValue = text], fsTimers)
    /\ UNCHANGED <<nextZIndex, now, sendSeq>>

\* a send that appends the trimmed text
handleSendMessageTrimmed(w) ==
    /\ w \in PersonaIds
    /\ usable(w)
    /\ containerRendered(win[w])
    /\ sendSeq < sendBudget
    /\ LET inputValue == win[w].inputValue IN
        IF trim(inputValue) = "" THEN UNCHANGED vars
        ELSE /\ sendSeq' = sendSeq + 1
             /\ saveEffect(w, win[w],
                    [win[w] EXCEPT
                        !.messages = Append(@, UserMessage(sendSeq + 1, trim(inputValue))),
                        !.inputValue = "",
                        !.replies = Append(@, sendSeq + 1),
                        !.saveTimer = TRUE],
                    fsTimers)
             /\ UNCHANGED <<nextZIndex, now>>

\* TerminalWindow.handleSendMessage: the send button, or Enter in the input
handleSendMessage(w) ==
    /\ w \in PersonaIds
    /\ usable(w)
    /\ containerRendered(win[w])
    /\ sendSeq < sendBudget
    /\ LET inputValue == win[w].inputValue IN
        IF trim(inputValue) = "" THEN UNCHANGED vars
        ELSE /\ sendSeq' = sendSeq + 1
             /\ saveEffect(w, win[w],
                    [win[w] EXCEPT
                        !.messages = Append(@, UserMessage(sendSeq + 1, inputValue)),
                        !.inputValue = "",
                        !.replies = Append(@, sendSeq + 1),
                        !.saveTimer = TRUE],
                    fsTimers)
             /\ UNCHANGED <<nextZIndex, now>>

\* a reply timer that appends to the messages its send saw, not to the latest
replyTimerStale(w) ==
    /\ w \in PersonaIds
    /\ win[w].mounted
    /\ win[w].replies # <<>>
    /\ LET k == Head(win[w].replies)
           m == win[w].messages
           u == CHOOSE i \in 1..Len(m) : m[i].id = 10 * k
       IN saveEffect(w, win[w],
              [win[w] EXCEPT !.messages = Append(SubSeq(m, 1, u), ReplyMessage(k)),
                             !.replies = Tail(@),
                             !.saveTimer = TRUE],
              fsTimers)
    /\ UNCHANGED <<nextZIndex, now, sendSeq>>

\* the 1000 ms timer of handleSendMessage
replyTimer(w) ==
    /\ w \in PersonaIds
    /\ win[w].mounted
    /\ win[w].replies # <<>>
    /\ saveEffect(w, win[w],
           [win[w] EXCEPT !.messages = Append(@, ReplyMessage(Head(win[w].replies))),
                          !.replies = Tail(@),
                          !.saveTimer = TRUE],
           fsTimers)
    /\ UNCHANGED <<nextZIndex, now, sendSeq>>

NpcMessage(k) == [id |-> 10 * k + 1, content |-> "reply", sender |-> "npc"]
VoidMessage(k) == [id |-> 10 * k + 2, content |-> "reply", sender |-> "void"]

\* GroupChatWindow.handleSendMessage
groupSendMessage ==
    /\ usable("group")
    /\ containerRendered(win["group"])
    /\ sendSeq < sendBudget
    /\ LET inputValue == win["group"].inputValue IN
        IF trim(inputValue) = "" THEN UNCHANGED vars
        ELSE /\ sendSeq' = sendSeq + 1
             /\ Local([win EXCEPT
                        !["group"].messages = Append(@, UserMessage(sendSeq + 1, inputValue)),
                        !["group"].inputValue = "",
                        !["group"].replies = Append(@, sendSeq + 1),
                        !["group"].saveTimer = TRUE],
                      fsTimers)
             /\ UNCHANGED <<nextZIndex, now>>

\* the 1000 ms timer of GroupChatWindow.handleSendMessage: the NPC responds
\* and the timer of the VOID response starts
npcReplyTimer ==
    /\ win["group"].mounted
    /\ win["group"].replies # <<>>
    /\ Local([win EXCEPT
               !["group"].messages = Append(@, NpcMessage(Head(win["group"].replies))),
               !["group"].voidReplies = Append(@, Head(win["group"].replies)),
               !["group"].replies = Tail(@),
               !["group"].saveTimer = TRUE],
             fsTimers)
    /\ UNCHANGED <<nextZIndex, now, sendSeq>>

\* the 800 ms timer started by the first: the VOID responds
voidReplyTimer ==
    /\ win["group"].mounted
    /\ win["group"].voidReplies # <<>>
    /\ Local([win EXCEPT
               !["group"].messages = Append(@, VoidMessage(Head(win["group"].voidReplies))),
               !["group"].voidReplies = Tail(@),
               !["group"].saveTimer = TRUE],
             fsTimers)
    /\ UNCHANGED <<nextZIndex, now, sendSeq>>

\* the 500 ms timer of the "save state when messages change" effect
saveTimer(w) ==
    /\ win[w].mounted
    /\ win[w].saveTimer
    /\ LET c == [win[w] EXCEPT !.saveTimer = FALSE]
           r == saveState(terminals, w, c.messages, c.scrollTop)
           W == [win EXCEPT ![w] = c]
       IN IF containerRendered(c) /\ r.changed
          THEN Commit(r.state, W, fsTimers, confirmationDialog, activeFullscreen)
          ELSE Local(W, fsTimers)
    /\ UNCHANGED <<nextZIndex, now, sendSeq>>

-----------------------------------------------------------------------------
(* ConfirmationDialog: handlers and timers *)

DialogLocal(d) ==
    /\ dlg' = d
    /\ UNCHANGED <<terminals, confirmationDialog, activeFullscreen, nextZIndex,
                   toolbarVisible, win, fsTimers, now, sendSeq, focusBudget,
                   sendBudget, apiVars, view>>

\* the 100 ms timer that shows the dialog box
dialogShowTimer ==
    /\ dlg.mounted
    /\ dlg.showTimer
    /\ DialogLocal([dlg EXCEPT !.isVisible = TRUE, !.showTimer = FALSE])

\* handleConfirm, handleCancel: the buttons of the dialog box
dialogClick(kind) ==
    /\ dlg.mounted
    /\ dlg.isVisible
    /\ DialogLocal([dlg EXCEPT
           !.isVisible = FALSE,
           !.exiting = TRUE,
           !.timers = Append(@, [kind |-> kind,
                                 terminalType |-> confirmationDialog.terminalType])])

\* handleConfirm, handleCancel called again: AnimatePresence keeps the box
\* with its buttons rendered while the exit animation (0.2 s) runs
dialogClickExiting(kind) ==
    /\ dlg.mounted
    /\ dlg.exiting
    /\ Len(dlg.timers) < MaxDialogClicks
    /\ DialogLocal([dlg EXCEPT
           !.timers = Append(@, [kind |-> kind,
                                 terminalType |-> confirmationDialog.terminalType])])

\* the exit animation has ended and AnimatePresence removes the box
dialogExitComplete ==
    /\ dlg.mounted
    /\ dlg.exiting
    /\ DialogLocal([dlg EXCEPT !.exiting = FALSE])

\* the 300 ms timer of handleConfirm and handleCancel
dialogTimer ==
    /\ dlg.timers # <<>>
    /\ IF Head(dlg.timers).kind = "confirm"
       THEN handleConfirmClose(Head(dlg.timers).terminalType)
       ELSE handleCancelClose

-----------------------------------------------------------------------------

\* The session of page.tsx: the three persona windows, their life cycle,
\* fullscreen, stacking and the confirmation dialog (asked for the chips in
\* CloseIds).  Nothing is sent or scrolled, so every record keeps its seed
\* message and offset 0.
Next ==
    \/ \E w \in PersonaIds : openChat(w)
    \/ \E w \in PersonaIds : handleClose(w)
    \/ \E w \in CloseIds : closeTerminal(w)
    \/ \E d \in Directions : cycleFullscreen(d)
    \/ \E w \in PersonaIds : onFocus(w)
    \/ \E w \in PersonaIds : toggleFullscreen(w)
    \/ \E t \in fsTimers : fullscreenTimer(t)
    \/ \E w \in PersonaIds : transitionTimer(w)
    \/ \E w \in PersonaIds : toggleMinimize(w)
    \/ dialogShowTimer
    \/ \E kind \in {"confirm", "cancel"} : dialogClick(kind)
    \/ dialogTimer

Spec == Init /\ [][Next]_vars

\* The conversation of the windows in ChatIds: everything above on those
\* windows, plus sending, the replies, scrolling and the debounced save.
NextChat ==
    \/ \E w \in ChatIds : openChat(w)
    \/ \E w \in ChatIds : handleClose(w)
    \/ \E w \in ChatIds : closeTerminal(w)
    \/ \E d \in Directions : cycleFullscreen(d)
    \/ \E w \in ChatIds : onFocus(w)
    \/ \E w \in ChatIds : toggleFullscreen(w)
    \/ \E t \in fsTimers : fullscreenTimer(t)
    \/ \E w \in ChatIds : transitionTimer(w)
    \/ \E w \in ChatIds : toggleMinimize(w)
    \/ \E w \in ChatIds : scroll(w)
    \/ \E w \in ChatIds : handleInputChange(w)
    \/ \E w \in ChatIds : handleSendMessage(w)
    \/ \E w \in ChatIds : replyTimer(w)
    \/ \E w \in ChatIds : saveTimer(w)
    \/ dialogShowTimer
    \/ \E kind \in {"confirm", "cancel"} : dialogClick(kind)
    \/ dialogTimer

InitChat ==
    /\ terminals = [w \in WindowIds |-> InitialTerminal(w)]
    /\ confirmationDialog = EmptyDialog
    /\ activeFullscreen = None
    /\ nextZIndex = InitialNextZIndex
    /\ toolbarVisible = FALSE
    /\ win = [w \in WindowIds |-> Unmounted]
    /\ fsTimers = {}
    /\ dlg = DialogUnmounted
    /\ now = 0
    /\ sendSeq = 0
    /\ focusBudget = MaxChatFocus
    /\ sendBudget = MaxSends
    /\ NoRequest
    /\ view = NoView

SpecChat == InitChat /\ [][NextChat]_vars

\* The conversation of a window that stays open: the default window is
\* opened and used, never closed.
NextTalk ==
    \/ \E w \in TalkIds : openChat(w)
    \/ \E w \in TalkIds : onFocus(w)
    \/ \E w \in TalkIds : toggleFullscreen(w)
    \/ \E t \in fsTimers : fullscreenTimer(t)
    \/ \E w \in TalkIds : transitionTimer(w)
    \/ \E w \in TalkIds : toggleMinimize(w)
    \/ \E w \in TalkIds : scroll(w)
    \/ \E w \in TalkIds : handleInputChange(w)
    \/ \E w \in TalkIds : handleSendMessage(w)
    \/ \E w \in TalkIds : replyTimer(w)
    \/ \E w \in TalkIds : saveTimer(w)

InitTalk ==
    /\ terminals = [w \in WindowIds |-> InitialTerminal(w)]
    /\ confirmationDialog = EmptyDialog
    /\ activeFullscreen = None
    /\ nextZIndex = InitialNextZIndex
    /\ toolbarVisible = FALSE
    /\ win = [w \in WindowIds |-> Unmounted]
    /\ fsTimers = {}
    /\ dlg = DialogUnmounted
    /\ now = 0
    /\ sendSeq = 0
    /\ focusBudget = MaxChatFocus
    /\ sendBudget = MaxTalkSends
    /\ NoRequest
    /\ view = NoView

SpecTalk == InitTalk /\ [][NextTalk]_vars

\* The group window, opened by the lifecycle manager, with its toolbar chip
\* and the confirmation dialog.
NextGroup ==
    \/ openGroupChat
    \/ restoreGroupChat
    \/ handleClose("group")
    \/ closeTerminal("group")
    \/ onFocus("group")
    \/ toggleFullscreen("group")
    \/ \E t \in fsTimers : fullscreenTimer(t)
    \/ transitionTimer("group")
    \/ toggleMinimize("group")
    \/ scroll("group")
    \/ handleInputChange("group")
    \/ groupSendMessage
    \/ npcReplyTimer
    \/ voidReplyTimer
    \/ saveTimer("group")
    \/ dialogShowTimer
    \/ \E kind \in {"confirm", "cancel"} : dialogClick(kind)
    \/ dialogTimer

InitGroup ==
    /\ terminals = [w \in WindowIds |-> InitialTerminal(w)]
    /\ confirmationDialog = EmptyDialog
    /\ activeFullscreen = None
    /\ nextZIndex = InitialNextZIndex
    /\ toolbarVisible = FALSE
    /\ win = [w \in WindowIds |-> Unmounted]
    /\ fsTimers = {}
    /\ dlg = DialogUnmounted
    /\ now = 0
    /\ sendSeq = 0
    /\ focusBudget = MaxGroupFocus
    /\ sendBudget = MaxGroupSends
    /\ NoRequest
    /\ view = NoView

SpecGroup == InitGroup /\ [][NextGroup]_vars

\* setDefaultFullscreen(false) .. setVoidFullscreen(false) of the current
\* render, called for a window that does not own the fullscreen
exitFullscreenOther(w) ==
    /\ activeFullscreen # w
    /\ setFullscreen(w, FALSE, nextZIndex, win, fsTimers)
    /\ UNCHANGED <<now, sendSeq>>

\* The session of Spec with the exit calls of windows that are not the
\* fullscreen owner.
NextExit ==
    \/ Next
    \/ \E w \in PersonaIds : exitFullscreenOther(w)

SpecExit == Init /\ [][NextExit]_vars

\* handleConfirmClose of the current render, called while no request is
\* pending
confirmCloseIdle ==
    /\ confirmationDialog.terminalType = None
    /\ handleConfirmClose(confirmationDialog.terminalType)

\* The session of SpecChat with handleConfirmClose also called when nothing
\* is pending.
NextIdle ==
    \/ NextChat
    \/ confirmCloseIdle

SpecIdle == InitChat /\ [][NextIdle]_vars

\* The session of Spec with the clicks that reach the dialog box during its
\* exit animation.
NextDialog ==
    \/ Next
    \/ \E kind \in {"confirm", "cancel"} : dialogClickExiting(kind)
    \/ dialogExitComplete

\* The session of two windows and their transitions, with every timer of
\* the browser fired in the end.  room keeps a z-index for each pending
\* 300 ms timer, so that the bound on nextZIndex never holds a timer back.
room == nextZIndex + Cardinality(fsTimers) < InitialNextZIndex + focusBudget

NextLock ==
    \/ \E w \in ChatIds : room /\ openChat(w)
    \/ \E w \in ChatIds : handleClose(w)
    \/ \E w \in ChatIds : room /\ onFocus(w)
    \/ \E w \in ChatIds : (win[w].isFullscreen \/ room) /\ toggleFullscreen(w)
    \/ \E d \in Directions : room /\ cycleFullscreen(d)
    \/ \E t \in fsTimers : fullscreenTimer(t)
    \/ \E w \in ChatIds : transitionTimer(w)
    \/ \E w \in ChatIds : toggleMinimize(w)

InitLock ==
    /\ terminals = [w \in WindowIds |-> InitialTerminal(w)]
    /\ confirmationDialog = EmptyDialog
    /\ activeFullscreen = None
    /\ nextZIndex = InitialNextZIndex
    /\ toolbarVisible = FALSE
    /\ win = [w \in WindowIds |-> Unmounted]
    /\ fsTimers = {}
    /\ dlg = DialogUnmounted
    /\ now = 0
    /\ sendSeq = 0
    /\ focusBudget = MaxLockFocus
    /\ sendBudget = 0
    /\ NoRequest
    /\ view = NoView

\* the timers setTimeout may hold in SpecLock
LockTimers ==
    [w : ChatIds,
     z : InitialNextZIndex..(InitialNextZIndex + MaxLockFocus),
     live : BOOLEAN]

\* a callback given to setTimeout is run
FairLock ==
    /\ \A w \in ChatIds : WF_vars(transitionTimer(w))
    /\ \A t \in LockTimers : WF_vars(fullscreenTimer(t))

SpecLock == InitLock /\ [][NextLock]_vars /\ FairLock

InitDialog ==
    /\ terminals = [w \in WindowIds |-> InitialTerminal(w)]
    /\ confirmationDialog = EmptyDialog
    /\ activeFullscreen = None
    /\ nextZIndex = InitialNextZIndex
    /\ toolbarVisible = FALSE
    /\ win = [w \in WindowIds |-> Unmounted]
    /\ fsTimers = {}
    /\ dlg = DialogUnmounted
    /\ now = 0
    /\ sendSeq = 0
    /\ focusBudget = MaxChatFocus
    /\ sendBudget = 0
    /\ NoRequest
    /\ view = NoView

SpecDialog == InitDialog /\ [][NextDialog]_vars

\* the restore button of a toolbar chip: the chip is display:none unless
\* its window is minimized to the toolbar
toolbarChip(w) ==
    IF w = "group" THEN restoreGroupChat
    ELSE /\ toolbarVisible
         /\ terminals[w].isToolbarMinimized
         /\ openChat(w)

\* The page with the controls of all four windows: the open buttons of the
\* three persona windows, the four toolbar chips, and the handlers of every
\* mounted window, the group window included.
NextPage ==
    \/ \E w \in PersonaIds : openChat(w)
    \/ \E w \in WindowIds : toolbarChip(w)
    \/ \E w \in WindowIds : handleClose(w)
    \/ \E w \in CloseIds \cup {"group"} : closeTerminal(w)
    \/ \E d \in Directions : cycleFullscreen(d)
    \/ \E w \in WindowIds : onFocus(w)
    \/ \E w \in WindowIds : toggleFullscreen(w)
    \/ \E t \in fsTimers : fullscreenTimer(t)
    \/ \E w \in WindowIds : transitionTimer(w)
    \/ \E w \in WindowIds : toggleMinimize(w)
    \/ dialogShowTimer
    \/ \E kind \in {"confirm", "cancel"} : dialogClick(kind)
    \/ dialogTimer

SpecPage == Init /\ [][NextPage]_vars

-----------------------------------------------------------------------------
(* The chat endpoint: POST (appended to src/src/app/page.tsx) *)

winVars == <<terminals, confirmationDialog, activeFullscreen, nextZIndex,
             toolbarVisible, win, fsTimers, dlg, now, sendSeq, focusBudget,
             sendBudget>>

\* values of modelProvider in the request body ("undefined": field absent)
Providers == {"openai", "anthropic", "gemini", "undefined"}

\* error.status of what the handler can catch: 0 is an error without status
\* (SyntaxError of req.json(), a connection error), the others are the HTTP
\* status of an APIError of the provider's SDK
ErrorStatuses == {0, 401, 529}

\* chunks of the upstream Anthropic stream
TextDelta(text) ==
    [type |-> "content_block_delta", delta |-> [type |-> "text_delta", text |-> text]]
JsonDelta ==
    [type |-> "content_block_delta", delta |-> [type |-> "input_json_delta", text |-> ""]]
MessageStart ==
    [type |-> "message_start", delta |-> [type |-> "none", text |-> ""]]

DeltaTexts == {"hi", "[DONE]"}

Chunks == {TextDelta(t) : t \in DeltaTexts} \cup {JsonDelta, MessageStart}

RECURSIVE SeqsUpTo(_, _)
SeqsUpTo(S, n) ==
    IF n = 0 THEN {<<>>}
    ELSE LET shorter == SeqsUpTo(S, n - 1)
         IN shorter \cup {Append(q, x) : q \in shorter, x \in S}

\* JSON.stringify({ text }) for texts without characters to escape
JSONstringify(text) == "{\"text\":\"" \o text \o "\"}"

\* the server-sent event of one text delta, and the sentinel event
DataEvent(text) == "data: " \o JSONstringify(text) \o "\n\n"
DoneEvent == "data: [DONE]\n\n"

\* new Response(body, { status }): a status outside 200..599 raises a
\* RangeError
NewResponse(kind, status) ==
    IF status \in 200..599 THEN [kind |-> kind, status |-> status]
    ELSE [kind |-> "raised", status |-> 0]

\* the catch block of POST
caught(error) ==
    LET errorCode == IF error.status # 0 THEN error.status ELSE 500
    IN NewResponse("json", errorCode)

\* POST without the tests of the API keys
POSTNoKeyCheck(body, env, up) ==
    LET result(r, calls, st, q) ==
            [response |-> r, upstreamCalls |-> calls, streamState |-> st, chunks |-> q]
    IN IF ~body.ok THEN result(caught([status |-> 0]), {}, "none", <<>>)
       ELSE IF body.modelProvider \notin {"openai", "anthropic"}
       THEN result(NewResponse("text", 400), {}, "none", <<>>)
       ELSE IF up.raises
       THEN result(caught([status |-> up.status]), {body.modelProvider}, "none", <<>>)
       ELSE IF body.modelProvider = "openai"
       THEN result(NewResponse("stream", 200), {"openai"}, "sdk", <<>>)
       ELSE result(NewResponse("stream", 200), {"anthropic"}, "open", up.chunks)

\* POST(req) up to the return of the Response: body is the outcome of
\* req.json(), env the environment variables that are set, up what the
\* provider's create call does if it is made
POST(body, env, up) ==
    LET result(r, calls, st, q) ==
            [response |-> r, upstreamCalls |-> calls, streamState |-> st, chunks |-> q]
    IN IF ~body.ok THEN result(caught([status |-> 0]), {}, "none", <<>>)
       ELSE IF body.modelProvider \notin {"openai", "anthropic"}
       THEN result(NewResponse("text", 400), {}, "none", <<>>)
       ELSE IF ~env[body.modelProvider]
       THEN result(NewResponse("text", 500), {}, "none", <<>>)
       ELSE IF up.raises
       THEN result(caught([status |-> up.status]), {body.modelProvider}, "none", <<>>)
       ELSE IF body.modelProvider = "openai"
       THEN result(NewResponse("stream", 200), {"openai"}, "sdk", <<>>)
       ELSE result(NewResponse("stream", 200), {"anthropic"}, "open", up.chunks)

\* a client request reaches the endpoint
handleRequest ==
    /\ response = NoResponse
    /\ \E ok \in BOOLEAN, modelProvider \in Providers,
          openai \in BOOLEAN, anthropic \in BOOLEAN,
          raises \in BOOLEAN, status \in ErrorStatuses,
          q \in SeqsUpTo(Chunks, MaxChunks) :
          LET body == [ok |-> ok, modelProvider |-> modelProvider]
              env == [openai |-> openai, anthropic |-> anthropic]
              r == POST(body, env, [raises |-> raises, status |-> status, chunks |-> q])
          IN /\ request' = [ok |-> ok, modelProvider |-> modelProvider, env |-> env]
             /\ response' = r.response
             /\ upstreamCalls' = r.upstreamCalls
             /\ streamState' = r.streamState
             /\ chunks' = r.chunks
             /\ events' = <<>>
    /\ UNCHANGED <<winVars, view>>

\* start(controller): one turn of the for await loop over the upstream stream
streamChunk ==
    /\ streamState = "open"
    /\ chunks # <<>>
    /\ LET chunk == Head(chunks)
       IN events' = IF chunk.type = "content_block_delta" /\ chunk.delta.type = "text_delta"
                    THEN Append(events, DataEvent(chunk.delta.text))
                    ELSE events
    /\ chunks' = Tail(chunks)
    /\ UNCHANGED <<request, response, upstreamCalls, streamState, winVars, view>>

\* start(controller): the upstream stream has ended, the sentinel is
\* enqueued and the stream closed
streamDone ==
    /\ streamState = "open"
    /\ chunks = <<>>
    /\ events' = Append(events, DoneEvent)
    /\ streamState' = "closed"
    /\ UNCHANGED <<request, response, upstreamCalls, chunks, winVars, view>>

\* start(controller): the upstream stream raises while it is iterated; the
\* promise of start rejects and the response stream is errored
streamRaises ==
    /\ streamState = "open"
    /\ streamState' = "errored"
    /\ chunks' = <<>>
    /\ UNCHANGED <<request, response, upstreamCalls, events, winVars, view>>

NextApi ==
    \/ handleRequest
    \/ streamChunk
    \/ streamDone
    \/ streamRaises

SpecApi == Init /\ [][NextApi]_vars

-----------------------------------------------------------------------------
(* The scroll-to-bottom effect of a window *)

ClientHeights == {100}
ScrollHeights == {100, 300}
RowHeights == {20, 60}
ViewKinds == {"terminal", "group"}

\* senders of the messages a window of the kind appends
Senders(kind) == IF kind = "group" THEN {"user", "npc", "void"} ELSE {"user", "system"}

maxScrollTop(v) == IF v.scrollHeight > v.clientHeight THEN v.scrollHeight - v.clientHeight ELSE 0

\* scroll offsets explored: around the threshold below the largest offset
ScrollStops(v) ==
    {s \in {0, maxScrollTop(v) - NearBottom - 1, maxScrollTop(v) - NearBottom,
            maxScrollTop(v) - NearBottom + 1, maxScrollTop(v)} : s >= 0}

isScrolledToBottom(v) == v.scrollHeight - v.scrollTop <= v.clientHeight + NearBottom

\* TerminalWindow: whether the effect calls scrollIntoView
shouldScroll(v) ==
    /\ ~v.isMinimized
    /\ ~v.isTransitioning
    /\ \/ (Len(v.senders) > 0 /\ v.senders[Len(v.senders)] = "system")
       \/ isScrolledToBottom(v)

\* GroupChatWindow: whether the effect calls scrollIntoView
shouldScrollGroup(v) ==
    /\ ~v.isMinimized
    /\ ~v.isTransitioning
    /\ \/ v.savedLength = 0
       \/ Len(v.senders) > v.savedLength

\* messagesEndRef.current.scrollIntoView(), the scroll completed
scrollIntoView(v) == [v EXCEPT !.scrollTop = maxScrollTop(v), !.scrolled = TRUE]

\* the effect "Scroll to bottom when messages change" of the window of v
scrollEffect(v) ==
    IF (v.kind = "group" /\ shouldScrollGroup(v)) \/ (v.kind = "terminal" /\ shouldScroll(v))
    THEN scrollIntoView(v)
    ELSE [v EXCEPT !.scrolled = FALSE]

\* a window is observed with one message, some height of content and some
\* scroll offset; savedLength is the length of the record's messages
mountView ==
    /\ view = NoView
    /\ \E kind \in ViewKinds, isMinimized \in BOOLEAN, isTransitioning \in BOOLEAN,
          scrollHeight \in ScrollHeights, clientHeight \in ClientHeights,
          savedLength \in 0..1 :
          LET v == [kind |-> kind, isMinimized |-> isMinimized,
                    isTransitioning |-> isTransitioning,
                    senders |-> <<"system">>, savedLength |-> savedLength,
                    scrollHeight |-> scrollHeight, clientHeight |-> clientHeight,
                    scrollTop |-> 0, scrolled |-> FALSE]
          IN /\ kind = "terminal" => savedLength = 1
             /\ view' = v
    /\ UNCHANGED <<winVars, apiVars>>

\* the reader scrolls the container
userScroll ==
    /\ view # NoView
    /\ \E s \in ScrollStops(view) \ {view.scrollTop} :
          view' = [view EXCEPT !.scrollTop = s, !.scrolled = FALSE]
    /\ UNCHANGED <<winVars, apiVars>>

\* setMessages appends a message, the container grows by its row and the
\* effect runs
messagesChange ==
    /\ view # NoView
    /\ Len(view.senders) < MaxViewMessages
    /\ \E sender \in Senders(view.kind), rowHeight \in RowHeights :
          view' = scrollEffect([view EXCEPT !.senders = Append(@, sender),
                                            !.scrollHeight = @ + rowHeight])
    /\ UNCHANGED <<winVars, apiVars>>

\* the debounced save has written the messages into the record
viewSaved ==
    /\ view # NoView
    /\ view.savedLength # Len(view.senders)
    /\ view' = [view EXCEPT !.savedLength = Len(view.senders), !.scrolled = FALSE]
    /\ UNCHANGED <<winVars, apiVars>>

NextScroll ==
    \/ mountView
    \/ userScroll
    \/ messagesChange
    \/ viewSaved

SpecScroll == Init /\ [][NextScroll]_vars

-----------------------------------------------------------------------------
(* Properties *)

\* C1: restore fidelity.  When the close button of window w minimizes it to
\* the toolbar, the record that open(w) restores from holds the messages the
\* window held and the scroll offset it held immediately before, so that the
\* restored window shows the same history at the same offset.
RestoreFidelity ==
    [][\A w \in WindowIds : handleClose(w) =>
          /\ terminals'[w].isToolbarMinimized
          /\ Mount(w, terminals'[w]).messages = win[w].messages
          /\ terminals'[w].scrollPosition = currentScroll(win[w])]_vars

\* C2: confirmClose with pending target w leaves record(w) closed, not
\* toolbar-minimized, with exactly the seed message of w and scroll offset 0.
ConfirmCloseResets ==
    [][\A w \in WindowIds :
          (/\ dlg.timers # <<>>
           /\ Head(dlg.timers) = [kind |-> "confirm", terminalType |-> w]
           /\ dialogTimer)
          => /\ ~terminals'[w].isOpen
             /\ ~terminals'[w].isToolbarMinimized
             /\ terminals'[w].messages = <<SystemMessage(getInitialMessage(w))>>
             /\ terminals'[w].scrollPosition = 0]_vars

\* C3: activeFullscreen is none or names a window whose record is open.
ActiveFullscreenIsOpen ==
    activeFullscreen = None \/ terminals[activeFullscreen].isOpen

\* C4: at most one mounted window has its fullscreen flag set, and a window
\* shown fullscreen (flag set, not hidden) is the one activeFullscreen names.
OneFullscreen ==
    /\ Cardinality({w \in WindowIds : win[w].mounted /\ win[w].isFullscreen}) <= 1
    /\ \A w \in WindowIds :
          (win[w].mounted /\ win[w].isFullscreen /\ ~hidden(w))
          => activeFullscreen = w

\* C5: a cycle call leaves activeFullscreen unchanged or sets it to a window
\* that is open at the time of the call; the eligible-list cycle likewise
\* never picks a key that is not open.
CycleSelectsOpen ==
    [][\A d \in Directions :
          (activeFullscreen # None /\ cycleFullscreen(d)) =>
             /\ \/ activeFullscreen' = activeFullscreen
                \/ terminals[activeFullscreen'].isOpen
             /\ \A v2 \in BOOLEAN, a \in WindowIds \cup {"v2", None} :
                   LET t == cycleTargetV2(terminals, v2, a, d)
                   IN \/ t = a
                      \/ t = "v2" /\ v2
                      \/ t \in WindowIds /\ terminals[t].isOpen]_vars

\* default holds the fullscreen flag, npc is closed, and the fourth focus call
\* made void the fullscreen owner: cycle(next) stepped over npc
CycleSteppedOverClosed ==
    /\ activeFullscreen = "void"
    /\ nextZIndex = InitialNextZIndex + 4
    /\ terminals["void"].zIndex = InitialNextZIndex + 3
    /\ terminals["void"].isOpen /\ ~win["void"].isFullscreen
    /\ win["default"].isFullscreen
    /\ ~terminals["npc"].isOpen
    /\ fsTimers = {}

\* C6: with at least two windows open and an open window a holding
\* fullscreen, cycle(next) then cycle(prev) ends with a active, and so does
\* cycle(prev) then cycle(next).
CycleRoundTrip ==
    \A a \in WindowIds :
        (activeFullscreen = a /\ terminals[a].isOpen
            /\ Cardinality(open(terminals)) >= 2)
        => /\ cycleTarget(terminals, cycleTarget(terminals, a, "next"), "prev") = a
           /\ cycleTarget(terminals, cycleTarget(terminals, a, "prev"), "next") = a

\* the call of bringToFront(w): by open, mouse down, entering fullscreen (at
\* once or from the 300 ms timer) or cycle
focus(w) ==
    \/ openChat(w)
    \/ onFocus(w)
    \/ toggleFullscreen(w) /\ nextZIndex' # nextZIndex
    \/ \E t \in fsTimers : t.w = w /\ fullscreenTimer(t)
    \/ \E d \in Directions :
          cycleFullscreen(d) /\ activeFullscreen' = w /\ activeFullscreen # w

\* C7: focus(w) gives record(w) a zIndex strictly greater than every zIndex
\* an earlier focus call assigned (the records hold such values, or the
\* initial one).
FocusStrictlyIncreases ==
    [][\A w \in WindowIds : focus(w) =>
          \A v \in WindowIds :
              \/ terminals[v].zIndex = InitialZIndex
              \/ terminals'[w].zIndex > terminals[v].zIndex]_vars

\* C8: saveState(w, m, s) with m and s equal to what record(w) holds returns
\* the previous state itself, and of two consecutive calls with the same m
\* and s the second changes nothing.
SaveStateIdempotent ==
    \A w \in WindowIds :
        /\ saveState(terminals, w, terminals[w].messages,
                     terminals[w].scrollPosition)
              = [state |-> terminals, changed |-> FALSE]
        /\ \A v \in WindowIds, s \in 0..MaxScroll :
              LET first == saveState(terminals, w, win[v].messages, s)
                  second == saveState(first.state, w, win[v].messages, s)
              IN second = [state |-> first.state, changed |-> FALSE]

\* the record of default was saved with a conversation and a scroll offset,
\* and the window still holds both: every further save repeats the values
SaveRepeated ==
    /\ win["default"].mounted
    /\ Len(win["default"].messages) >= 3
    /\ terminals["default"].messages = win["default"].messages
    /\ win["default"].scrollTop = 1
    /\ terminals["default"].scrollPosition = 1
    /\ containerRendered(win["default"])

\* C9: the toolbar is visible if and only if activeFullscreen is none and
\* some record is toolbar-minimized.
ToolbarVisibility ==
    toolbarVisible <=>
        /\ activeFullscreen = None
        /\ \E w \in WindowIds : terminals[w].isToolbarMinimized

\* default is toolbar-minimized while npc holds fullscreen: no toolbar
ToolbarHiddenByFullscreen ==
    /\ terminals["default"].isToolbarMinimized
    /\ terminals["npc"].isOpen
    /\ win["npc"].isFullscreen
    /\ activeFullscreen = "npc"
    /\ ~toolbarVisible

\* C10: requestClose(w) and the cancelClose() that follows leave every
\* record, activeFullscreen and the z-index counter as they were, and the
\* cancel leaves the confirmation request empty.
CancelLeavesRecords ==
    [][/\ (\E w \in WindowIds : closeTerminal(w)) =>
             /\ terminals' = terminals
             /\ activeFullscreen' = activeFullscreen
             /\ nextZIndex' = nextZIndex
       /\ (dlg.timers # <<>> /\ Head(dlg.timers).kind = "cancel" /\ dialogTimer) =>
             /\ terminals' = terminals
             /\ activeFullscreen' = activeFullscreen
             /\ nextZIndex' = nextZIndex
             /\ confirmationDialog' = EmptyDialog]_vars

\* C11: in a single-persona window that stays open the conversation starts
\* with the one seed message; every accepted send is in it exactly once; its
\* reply is absent while the reply timer is pending and afterwards is in it
\* exactly once, from the system and after the send; once n sends are accepted
\* and every reply timer has fired the length is 1 + 2n.
ConversationOrdered ==
    \A w \in TalkIds : win[w].mounted =>
        LET m == win[w].messages
            at(id) == {i \in 1..Len(m) : m[i].id = id}
            pending == {win[w].replies[i] : i \in 1..Len(win[w].replies)}
        IN /\ m[1] = SystemMessage(getInitialMessage(w))
           /\ \A i \in 2..Len(m) : m[i].id # SeedId
           /\ \A k \in 1..sendSeq :
                /\ Cardinality(at(10 * k)) = 1
                /\ \A i \in at(10 * k) : m[i].sender = "user"
                /\ IF k \in pending THEN at(10 * k + 1) = {}
                   ELSE /\ Cardinality(at(10 * k + 1)) = 1
                        /\ \A i \in at(10 * k), j \in at(10 * k + 1) :
                             i < j /\ m[j].sender = "system"
           /\ (pending = {}) => Len(m) = 1 + 2 * sendSeq

\* two sends within the reply delay, both replies delivered
OverlappingSendsAnswered ==
    /\ win["default"].mounted
    /\ sendSeq = 2
    /\ win["default"].replies = <<>>
    /\ Len(win["default"].messages) = 5
    /\ win["default"].messages[2].sender = "user"
    /\ win["default"].messages[3].sender = "user"

\* C12: in the group window a reply that a send has scheduled is never
\* dropped: the pending NPC reply of an accepted message stays pending or is
\* appended and starts the VOID reply, and a pending VOID reply stays pending
\* or is appended after the NPC reply of the same message.
GroupRepliesDelivered ==
    [][LET c == win["group"]
           m == win["group"].messages'
           at(id) == {i \in 1..Len(m) : m[i].id = id}
           range(q) == {q[i] : i \in 1..Len(q)}
       IN /\ \A k \in range(c.replies) :
               \/ k \in range(c.replies')
               \/ /\ Len(m) > 0
                  /\ m[Len(m)] = NpcMessage(k)
                  /\ k \in range(c.voidReplies')
          /\ \A k \in range(c.voidReplies) :
               \/ k \in range(c.voidReplies')
               \/ /\ Len(m) > 0
                  /\ m[Len(m)] = VoidMessage(k)
                  /\ \E i \in at(10 * k + 1) : i < Len(m)]_vars

\* C13: a reply is not lost when its window is minimized to the toolbar while
\* the reply timer is in flight: in a window that is shown, every user message
\* whose reply is no longer pending is followed by its reply.
RepliesSurviveMinimize ==
    \A w \in ChatIds : win[w].mounted =>
        LET m == win[w].messages
            pending == {10 * win[w].replies[i] : i \in 1..Len(win[w].replies)}
        IN \A i \in 1..Len(m) :
            (m[i].sender = "user" /\ m[i].id \notin pending) =>
                \E j \in (i + 1)..Len(m) :
                    m[j].id = m[i].id + 1 /\ m[j].sender = "system"

\* C14: every window record that is open holds at least one message, the
\* group record included.
OpenRecordsHaveMessages ==
    \A w \in WindowIds : terminals[w].isOpen => Len(terminals[w].messages) >= 1

\* C15: for every window the one message that confirmClose writes into the
\* record has the content and the sender of the welcome message the window
\* shows when it is first created.
ResetWelcomeMatchesCreation ==
    [][\A w \in WindowIds :
          (/\ dlg.timers # <<>>
           /\ Head(dlg.timers) = [kind |-> "confirm", terminalType |-> w]
           /\ dialogTimer)
          => LET reset == resetTerminal(terminals, w)[w].messages
                 created == Mount(w, InitialTerminal(w)).messages
             IN /\ Len(reset) = 1
                /\ Len(created) = 1
                /\ reset[1].content = created[1].content
                /\ reset[1].sender = created[1].sender]_vars

\* C16: when the callback of a confirmation has run, confirmClose or
\* cancelClose, the confirmation request is empty: not pending, no target,
\* title and message empty.
RequestClearedByCallback ==
    [][dialogTimer =>
          /\ ~confirmationDialog'.isOpen
          /\ confirmationDialog'.terminalType = None
          /\ confirmationDialog'.title = ""
          /\ confirmationDialog'.message = ""]_vars

\* a close has been confirmed (only the reset leaves an opened window neither
\* open nor minimized) and nothing of the dialog is left
RequestClearedAfterConfirm ==
    /\ terminals["default"].createdAt > 0
    /\ ~terminals["default"].isOpen
    /\ ~terminals["default"].isToolbarMinimized
    /\ confirmationDialog = EmptyDialog
    /\ dlg.timers = <<>>

\* C17: open(w) on a window that is already open leaves isOpen,
\* isToolbarMinimized, messages, scrollPosition and createdAt of its record
\* as they were.
OpenIdempotentOnOpen ==
    [][\A w \in PersonaIds :
          (terminals[w].isOpen /\ openChat(w)) =>
              /\ terminals'[w].isOpen = terminals[w].isOpen
              /\ terminals'[w].isToolbarMinimized = terminals[w].isToolbarMinimized
              /\ terminals'[w].messages = terminals[w].messages
              /\ terminals'[w].scrollPosition = terminals[w].scrollPosition
              /\ terminals'[w].createdAt = terminals[w].createdAt]_vars

\* C18: minimizeToToolbar(w) leaves the record of w minimized to the toolbar
\* and not open, with its zIndex and createdAt as before; activeFullscreen
\* becomes none when it was w and is unchanged otherwise.
MinimizeToToolbarFrame ==
    [][\A w \in PersonaIds :
          handleClose(w) =>
              /\ terminals'[w].isToolbarMinimized
              /\ ~terminals'[w].isOpen
              /\ terminals'[w].zIndex = terminals[w].zIndex
              /\ terminals'[w].createdAt = terminals[w].createdAt
              /\ activeFullscreen' = IF activeFullscreen = w THEN None
                                     ELSE activeFullscreen]_vars

\* default sits in the toolbar while npc owns the fullscreen
MinimizedBesideFullscreen ==
    /\ terminals["default"].isToolbarMinimized
    /\ ~terminals["default"].isOpen
    /\ terminals["default"].zIndex >= InitialNextZIndex
    /\ activeFullscreen = "npc"

\* C19: after confirmClose with target w the fullscreen owner is not w.
ConfirmCloseClearsFullscreen ==
    [][\A w \in WindowIds :
          (/\ dlg.timers # <<>>
           /\ Head(dlg.timers) = [kind |-> "confirm", terminalType |-> w]
           /\ dialogTimer)
          => activeFullscreen' # w]_vars

\* C20: requestClose(w) changes no window record, not the fullscreen owner
\* and not the z-index counter, and leaves the confirmation request pending
\* with target w and the fixed title and message; the request made last
\* replaces an earlier one, so a confirmClose resets the record of no window
\* but the one requested last.
RequestCloseFrame ==
    [][/\ \A w \in WindowIds :
             closeTerminal(w) =>
                 /\ terminals' = terminals
                 /\ activeFullscreen' = activeFullscreen
                 /\ nextZIndex' = nextZIndex
                 /\ confirmationDialog'.isOpen
                 /\ confirmationDialog'.terminalType = w
                 /\ confirmationDialog'.title = "Close Terminal"
                 /\ confirmationDialog'.message =
                        "This will permanently close the terminal and destroy all context. Are you sure you want to continue?"
       /\ (dlg.timers # <<>> /\ Head(dlg.timers).kind = "confirm" /\ dialogTimer) =>
             \A w \in WindowIds \ {confirmationDialog.terminalType} :
                 terminals'[w] = terminals[w]]_vars

\* C21: confirmClose called while no confirmation is pending changes no
\* window record, not the fullscreen owner, not the z-index counter and not
\* the confirmation request.
ConfirmWithoutRequestIsNoOp ==
    [][confirmCloseIdle =>
          /\ terminals' = terminals
          /\ activeFullscreen' = activeFullscreen
          /\ nextZIndex' = nextZIndex
          /\ confirmationDialog' = confirmationDialog]_vars

\* nothing is pending while the open default window holds an offset its
\* record does not: a render of Home would change the record
NoRequestUnsavedScroll ==
    /\ confirmationDialog = EmptyDialog
    /\ win["default"].mounted
    /\ currentScroll(win["default"]) # terminals["default"].scrollPosition
    /\ terminals["npc"].isToolbarMinimized

\* C22: an exit call setFullscreen(w, false) leaves activeFullscreen none
\* when w was the owner and unchanged when the owner is another window or
\* none.
ExitClearsOnlyOwner ==
    [][\A w \in PersonaIds :
          (\/ exitFullscreenOther(w)
           \/ win[w].isFullscreen /\ toggleFullscreen(w))
          => activeFullscreen' = IF activeFullscreen = w THEN None
                                 ELSE activeFullscreen]_vars

\* npc owns the fullscreen while default is open: an exit call for default
\* meets another owner
ExitMeetsOtherOwner ==
    /\ activeFullscreen = "npc"
    /\ win["npc"].isFullscreen
    /\ win["default"].mounted

\* C23: with at least two windows open and the open window a holding the
\* fullscreen, cycleFullscreen switches, for each direction, to the neighbour
\* of a in the list of the open windows in the order default, npc, void,
\* group, with wraparound.
CycleMovesToOpenNeighbour ==
    \A a \in WindowIds, d \in Directions :
        (activeFullscreen = a /\ terminals[a].isOpen
            /\ Cardinality(open(terminals)) >= 2)
        => LET eligible == SelectSeq(terminalTypes, LAMBDA key : terminals[key].isOpen)
               index == CHOOSE i \in 1..Len(eligible) : eligible[i] = a
               n == Len(eligible)
               neighbour == IF d = "next" THEN eligible[(index % n) + 1]
                            ELSE eligible[((index - 2 + n) % n) + 1]
           IN cycleTarget(terminals, a, d) = neighbour

\* C24: while activeFullscreen is none or fewer than two windows are open a
\* cycle call switches to no window, in either direction: the cycle of
\* page.tsx, which returns at once when activeFullscreen is none, and the
\* eligible-list cycle.
CycleNoOpBelowTwo ==
    (activeFullscreen = None \/ Cardinality(open(terminals)) < 2) =>
        \A d \in Directions :
            /\ activeFullscreen # None =>
                   cycleTarget(terminals, activeFullscreen, d) = activeFullscreen
            /\ cycleTargetV2(terminals, FALSE, activeFullscreen, d) = activeFullscreen

\* C25: on the records of every reachable state, for the V2 window open or
\* not, every owner and both directions, the eligible-list cycle works on
\* the open windows in record order followed by "v2" when the V2 window is
\* open; it changes nothing when the owner is not in that list or the list
\* has fewer than two keys; otherwise the owner becomes the neighbour in the
\* list with wraparound, which gets the counter value as its z-index (the V2
\* window through its own z-index state) and the counter goes up by one.
EligibleCycle ==
    \A v2 \in BOOLEAN, a \in WindowIds \cup {"v2", None}, d \in Directions :
        LET keys == availableFullscreenKeys(terminals, v2)
            n == Len(keys)
            r == cycleFullscreenV2(terminals, v2, InitialV2ZIndex, a, nextZIndex, d)
            same == [activeFullscreen |-> a, terminals |-> terminals,
                     termWinV2ZIndex |-> InitialV2ZIndex, nextZIndex |-> nextZIndex]
        IN /\ \A w \in WindowIds : terminals[w].isOpen <=> \E i \in 1..n : keys[i] = w
           /\ v2 <=> (n > 0 /\ keys[n] = "v2")
           /\ \A i, j \in 1..n :
                i < j => /\ keys[i] \in WindowIds
                         /\ keys[j] \in WindowIds => indexOf(keys[i]) < indexOf(keys[j])
           /\ IF n < 2 \/ ~(\E i \in 1..n : keys[i] = a)
              THEN r = same
              ELSE \E i, j \in 1..n :
                    /\ keys[i] = a
                    /\ j = IF d = "next" THEN IF i = n THEN 1 ELSE i + 1
                           ELSE IF i = 1 THEN n ELSE i - 1
                    /\ r.activeFullscreen = keys[j]
                    /\ r.nextZIndex = nextZIndex + 1
                    /\ IF keys[j] = "v2"
                       THEN r.termWinV2ZIndex = nextZIndex /\ r.terminals = terminals
                       ELSE /\ r.termWinV2ZIndex = InitialV2ZIndex
                            /\ r.terminals[keys[j]].zIndex = nextZIndex
                            /\ \A w \in WindowIds \ {keys[j]} :
                                 r.terminals[w] = terminals[w]

\* default owns the fullscreen, npc is open too: with the V2 window open
\* cycle(prev) wraps around from the first key to "v2"
EligibleCycleWraps ==
    /\ activeFullscreen = "default"
    /\ terminals["default"].isOpen /\ terminals["npc"].isOpen
    /\ cycleFullscreenV2(terminals, TRUE, InitialV2ZIndex, activeFullscreen,
                         nextZIndex, "prev").activeFullscreen = "v2"
    /\ cycleFullscreenV2(terminals, FALSE, InitialV2ZIndex, activeFullscreen,
                         nextZIndex, "prev").activeFullscreen = "npc"

\* C26: on every step other than a confirmClose the messages of every
\* window record before the step are a prefix of its messages after it.
RecordMessagesAppendOnly ==
    [][\/ dlg.timers # <<>> /\ Head(dlg.timers).kind = "confirm" /\ dialogTimer
       \/ \A w \in WindowIds :
             /\ Len(terminals[w].messages) <= Len(terminals'[w].messages)
             /\ SubSeq(terminals'[w].messages, 1, Len(terminals[w].messages))
                    = terminals[w].messages]_vars

\* C27: a send with an input that is empty after trimming leaves the
\* messages, the input and the pending reply timers of the window as they
\* are; any other send appends exactly one message, from the user and with
\* the untrimmed input as content, and clears the input.
SendRejectsBlank ==
    [][\A w \in WindowIds :
          (\/ handleSendMessage(w)
           \/ w = "group" /\ groupSendMessage)
          => IF trim(win[w].inputValue) = ""
             THEN /\ win'[w].messages = win[w].messages
                  /\ win'[w].inputValue = win[w].inputValue
                  /\ win'[w].replies = win[w].replies
             ELSE /\ Len(win'[w].messages) = Len(win[w].messages) + 1
                  /\ SubSeq(win'[w].messages, 1, Len(win[w].messages)) = win[w].messages
                  /\ win'[w].messages[Len(win'[w].messages)].sender = "user"
                  /\ win'[w].messages[Len(win'[w].messages)].content = win[w].inputValue
                  /\ win'[w].inputValue = ""]_vars

\* the text " hi " was sent as it was typed and the input is empty again
UntrimmedTextSent ==
    /\ win["default"].mounted
    /\ Len(win["default"].messages) = 2
    /\ win["default"].messages[2].content = " hi "
    /\ win["default"].messages[2].sender = "user"
    /\ win["default"].inputValue = ""
    /\ win["default"].replies = <<1>>

\* C28: when Home has rendered and the cleanups of the save effects have
\* run, running them once more, as the render they caused does, changes
\* nothing: every saveState call finds the values it wrote.
SaveLoopFixpoint ==
    [][<<terminals, confirmationDialog, activeFullscreen, nextZIndex>>'
          # <<terminals, confirmationDialog, activeFullscreen, nextZIndex>>
       => \A w \in PersonaIds :
             win'[w].mounted =>
                 ~saveState(terminals', w, win'[w].messages,
                            currentScroll(win'[w])).changed]_vars

\* a request for npc was raised while default was open with a conversation
\* and a scroll offset: the render saved both into the record of default
SavedByRender ==
    /\ confirmationDialog.terminalType = "npc"
    /\ win["default"].mounted
    /\ Len(win["default"].messages) >= 2
    /\ terminals["default"].messages = win["default"].messages
    /\ currentScroll(win["default"]) = 1
    /\ terminals["default"].scrollPosition = 1

\* C29: createdAt of a record changes only on a fresh open, a step that
\* finds the window neither open nor minimized to the toolbar and leaves it
\* open; restore, minimizeToToolbar, focus, saveState, setFullscreen, cycle
\* and confirmClose leave it as it was.
CreatedAtOnlyOnFreshOpen ==
    [][\A w \in WindowIds :
          terminals'[w].createdAt # terminals[w].createdAt
             => /\ ~terminals[w].isOpen
                /\ ~terminals[w].isToolbarMinimized
                /\ terminals'[w].isOpen]_vars

\* every record's zIndex is below the counter, which is at least its
\* initial value
ZIndexBelowCounter ==
    /\ nextZIndex >= InitialNextZIndex
    /\ InitialNextZIndex > InitialZIndex
    /\ \A w \in WindowIds :
          /\ terminals[w].zIndex >= InitialZIndex
          /\ terminals[w].zIndex < nextZIndex

\* C30: the z-index counter never decreases, every record's zIndex stays
\* strictly below it, and a focus, the step that writes the zIndex of a
\* record, places that record strictly above all the others.
CounterPlacesFocusOnTop ==
    [][/\ nextZIndex' >= nextZIndex
       /\ ZIndexBelowCounter'
       /\ \A w \in WindowIds :
             terminals'[w].zIndex # terminals[w].zIndex
                => \A v \in WindowIds \ {w} :
                      terminals'[w].zIndex > terminals'[v].zIndex]_vars

StreamEndsWithSentinel ==
    streamState \in {"closed", "errored"} =>
        /\ streamState = "closed"
        /\ chunks = <<>>
        /\ events # <<>>
        /\ events[Len(events)] = DoneEvent
        /\ \A i \in 1..(Len(events) - 1) : events[i] # DoneEvent

\* C33: when the messages of a window change, the window scrolls to the
\* newest message exactly when it is not collapsed, not in a transition, and
\* the newest message is not the user's or the container is within 50 units
\* of its largest scroll offset; otherwise the offset stays.  The same in
\* the persona windows and the group window.
ScrollToNewestPolicy ==
    [][messagesChange =>
          LET v == view'
              newest == v.senders[Len(v.senders)]
              policy == /\ ~view.isMinimized
                        /\ ~view.isTransitioning
                        /\ \/ newest # "user"
                           \/ v.scrollHeight - view.scrollTop <= v.clientHeight + NearBottom
          IN /\ v.scrolled <=> policy
             /\ ~policy => v.scrollTop = view.scrollTop
             /\ policy => v.scrollTop = maxScrollTop(v)]_vars

\* C34: no window record is open and toolbar-minimized at the same time:
\* each record is closed, open or toolbar-minimized.
OpenXorMinimized ==
    \A w \in WindowIds : ~(terminals[w].isOpen /\ terminals[w].isToolbarMinimized)

\* the three states side by side: default, opened before npc and brought
\* above it, is minimized to the toolbar, npc is open, void is closed
ThreeRecordStates ==
    /\ terminals["default"].isToolbarMinimized
    /\ ~terminals["default"].isOpen
    /\ terminals["default"].createdAt > 0
    /\ terminals["default"].zIndex > terminals["npc"].zIndex
    /\ terminals["npc"].createdAt > terminals["default"].createdAt
    /\ terminals["npc"].isOpen
    /\ ~terminals["npc"].isToolbarMinimized
    /\ ~terminals["void"].isOpen
    /\ ~terminals["void"].isToolbarMinimized

\* C35: from the reset of confirmClose until the window is opened again,
\* that is while its record is neither open nor toolbar-minimized, the
\* record of a persona window holds the single seed message and
\* scrollPosition 0: no timer and no unmount save writes history into it.
ClosedRecordStaysReset ==
    \A w \in PersonaIds :
        (~terminals[w].isOpen /\ ~terminals[w].isToolbarMinimized) =>
            /\ terminals[w].messages = <<SystemMessage(getInitialMessage(w))>>
            /\ terminals[w].scrollPosition = 0

\* C36: an operation of the manager aimed at window w (open, minimize to
\* the toolbar, focus, confirmClose with target w) leaves the record of
\* every other window unchanged in every field, and the records are always
\* those of default, npc, void and group.
OtherRecordsUntouched ==
    [][/\ DOMAIN terminals' = WindowIds
       /\ \A w \in WindowIds :
             (\/ openChat(w)
              \/ handleClose(w)
              \/ onFocus(w)
              \/ (/\ dlg.timers # <<>>
                  /\ Head(dlg.timers) = [kind |-> "confirm", terminalType |-> w]
                  /\ dialogTimer))
                => \A v \in WindowIds \ {w} : terminals'[v] = terminals[v]]_vars

\* C37: in the page the group window is never open, never minimized to the
\* toolbar and never mounted; activeFullscreen never names it and
\* cycleFullscreen never selects it.
GroupNeverOpen ==
    /\ ~terminals["group"].isOpen
    /\ ~terminals["group"].isToolbarMinimized
    /\ ~win["group"].mounted
    /\ activeFullscreen # "group"
    /\ \A d \in Directions :
          activeFullscreen # None => cycleTarget(terminals, activeFullscreen, d) # "group"

\* the toolbar is shown with the chip of void while default is open: the
\* chip of group is in the toolbar, hidden
ToolbarShownGroupChipHidden ==
    /\ toolbarVisible
    /\ terminals["void"].isToolbarMinimized
    /\ terminals["default"].isOpen
    /\ ~terminals["group"].isToolbarMinimized

\* C38: a ConfirmationDialog schedules at most one callback, onConfirm or
\* onCancel: after the first click on one of its buttons no further click
\* reaches handleConfirm or handleCancel, so never more than one 300 ms
\* timer is pending.
OneCallbackPerDialog ==
    Len(dlg.timers) <= 1


\* C39: inside a mounted window the collapsed flag and the fullscreen flag are
\* never both true; a step that takes a mounted window out of the collapsed
\* state does not make it fullscreen (toggleFullscreen leaves that to its
\* 300 ms timer); and while a mounted window is fullscreen or in a transition
\* no step changes its collapsed flag.
CollapsedXorFullscreen ==
    /\ [](\A w \in WindowIds :
            win[w].mounted => ~(win[w].isMinimized /\ win[w].isFullscreen))
    /\ [][\A w \in WindowIds :
            (win[w].mounted /\ win'[w].mounted) =>
                /\ win[w].isMinimized => ~win'[w].isFullscreen
                /\ (win[w].isMinimized /\ ~win'[w].isMinimized
                        /\ win'[w].isTransitioning) =>
                       \E t \in fsTimers' : t.w = w /\ t.live
                /\ (win[w].isFullscreen \/ win[w].isTransitioning) =>
                       win'[w].isMinimized = win[w].isMinimized]_vars

\* a window collapsed in place whose fullscreen button was pressed: it is no
\* longer collapsed, not yet fullscreen, locked, and its 300 ms timer is pending
FullscreenPendingFromCollapsed ==
    \E t \in fsTimers :
        /\ t.live
        /\ win[t.w].mounted
        /\ win[t.w].isTransitioning
        /\ ~win[t.w].isMinimized
        /\ ~win[t.w].isFullscreen


\* C40: the transition flag of a mounted window is a temporary lock.  While
\* it is set toggleFullscreen and toggleMinimize are not available, and a
\* step that keeps the window mounted leaves its collapsed flag alone, starts
\* no new 300 ms timer, changes its fullscreen flag only by firing its 300 ms
\* timer, and clears the lock only when no such timer is pending (the 100 ms
\* timer is started by the 300 ms one).  And whenever the flag is set it is
\* cleared later, or the window is unmounted.
TransitionIsTemporaryLock ==
    /\ [](\A w \in WindowIds :
            (win[w].mounted /\ win[w].isTransitioning) =>
                /\ ~ENABLED toggleFullscreen(w)
                /\ ~ENABLED toggleMinimize(w))
    /\ [][\A w \in WindowIds :
            (win[w].mounted /\ win[w].isTransitioning /\ win'[w].mounted) =>
                /\ win'[w].isMinimized = win[w].isMinimized
                /\ ~\E t \in fsTimers' \ fsTimers : t.w = w /\ t.live
                /\ win'[w].isFullscreen # win[w].isFullscreen =>
                       \E t \in fsTimers \ fsTimers' : t.w = w /\ t.live
                /\ ~win'[w].isTransitioning =>
                       ~\E t \in fsTimers : t.w = w /\ t.live]_vars
    /\ \A w \in WindowIds :
           (win[w].mounted /\ win[w].isTransitioning)
               ~> (~win[w].mounted \/ ~win[w].isTransitioning)

\* a mounted window that is fullscreen and not locked: toggleFullscreen set
\* its lock and the lock was cleared
LockReleased ==
    \E w \in ChatIds :
        /\ win[w].mounted
        /\ win[w].isFullscreen
        /\ ~win[w].isTransitioning

=============================================================================
